---- MODULE Spec2Model ----
(***************************************************************************)
(* Model of webserver/i18n.py: the I18n translation service (translation   *)
(* table, locale resolution, key lookup with fallback and interpolation)   *)
(* and the Flask adapter's pre-request hook around the single shared       *)
(* instance.                                                               *)
(*                                                                         *)
(* Python strings are sequences of one-character strings, so that split,   *)
(* lower, str.format and str() are computed, not assumed.                  *)
(***************************************************************************)
EXTENDS Integers, Sequences, FiniteSets, TLC

VARIABLES
    translations,      \* I18n.translations: locale code -> parsed document
    current_language,  \* I18n.current_language, the shared hint
    init_pc,           \* "loading" | "ready" | "aborted": where I18n() is
    load_next,         \* index in supported_languages of the next file to load
    session,           \* the host's session store: session id -> dict
    reqs,              \* requests in flight: request id -> context
    lastSet,           \* history: last code set_language stored per session
    ret                \* history: the last call and what it returned

vars == <<translations, current_language, init_pc, load_next, session, reqs,
          lastSet, ret>>

----------------------------------------------------------------------------
(* Bounds of the model.                                                    *)

MaxTextLen == 3     \* length of a leaf text of the default locale's file
MaxAltTextLen == 1  \* length of a leaf text of the other locale's file
MaxKeyLen == 3      \* length of a lookup key
MaxPrefs == 2       \* number of declared language preferences of a request

----------------------------------------------------------------------------
(* Strings.                                                                *)

en == <<"e", "n">>
zh == <<"z", "h">>
fr == <<"f", "r">>

supported_languages == <<en, zh>>

InList(x, list) == \E i \in 1..Len(list) : list[i] = x

RECURSIVE SeqsUpTo(_, _)
SeqsUpTo(S, n) ==
    IF n = 0 THEN {<<>>}
    ELSE LET shorter == SeqsUpTo(S, n - 1)
         IN  shorter \cup {Append(s, c) : s \in shorter, c \in S}

\* str.split(sep): the pieces between the separators, at least one piece.
RECURSIVE SplitFrom(_, _, _, _, _)
SplitFrom(s, sep, i, cur, acc) ==
    IF i > Len(s) THEN Append(acc, cur)
    ELSE IF s[i] = sep THEN SplitFrom(s, sep, i + 1, <<>>, Append(acc, cur))
    ELSE SplitFrom(s, sep, i + 1, Append(cur, s[i]), acc)

Split(s, sep) == SplitFrom(s, sep, 1, <<>>, <<>>)

LowerChar(c) ==
    CASE c = "Z" -> "z"
      [] c = "H" -> "h"
      [] c = "C" -> "c"
      [] c = "N" -> "n"
      [] c = "E" -> "e"
      [] c = "U" -> "u"
      [] c = "S" -> "s"
      [] OTHER -> c

Lower(s) == [i \in 1..Len(s) |-> LowerChar(s[i])]

----------------------------------------------------------------------------
(* Parsed JSON values: a string, or a dict kept in insertion order.        *)

StrNode(s) == [t |-> "str", s |-> s, d |-> <<>>]
DictNode(pairs) == [t |-> "dict", s |-> <<>>, d |-> pairs]
NoneValue == [t |-> "none", s |-> <<>>, d |-> <<>>]

DictHas(node, k) == \E i \in 1..Len(node.d) : node.d[i][1] = k
DictGet(node, k) ==
    node.d[CHOOSE i \in 1..Len(node.d) : node.d[i][1] = k][2]

\* The nested helper of translate: walk the segments of the dotted key.
RECURSIVE Walk(_, _, _)
Walk(value, keys, i) ==
    IF i > Len(keys) THEN value
    ELSE IF value.t = "dict" /\ DictHas(value, keys[i])
         THEN Walk(DictGet(value, keys[i]), keys, i + 1)
         ELSE NoneValue

get_nested_value(data, key_path) == Walk(data, Split(key_path, "."), 1)

Quoted(s) == <<"'">> \o s \o <<"'">>

\* str(value): a string is itself, a dict is its repr.
RECURSIVE PyStr(_)
RECURSIVE ItemsRepr(_, _)
ItemsRepr(pairs, i) ==
    IF i > Len(pairs) THEN <<>>
    ELSE (IF i > 1 THEN <<",", " ">> ELSE <<>>)
         \o Quoted(pairs[i][1]) \o <<":", " ">>
         \o (IF pairs[i][2].t = "str" THEN Quoted(pairs[i][2].s)
             ELSE PyStr(pairs[i][2]))
         \o ItemsRepr(pairs, i + 1)

PyStr(value) ==
    IF value.t = "str" THEN value.s
    ELSE <<"{">> \o ItemsRepr(value.d, 1) \o <<"}">>

----------------------------------------------------------------------------
(* str.format called with keyword arguments only.                          *)

Digits == {"0", "1", "2", "3", "4", "5", "6", "7", "8", "9"}
Braces == {"{", "}"}

\* Index of the first brace at or after i, or Len(s) + 1.
RECURSIVE NextBrace(_, _)
NextBrace(s, i) ==
    IF i > Len(s) \/ s[i] \in Braces THEN i ELSE NextBrace(s, i + 1)

\* A replacement field: empty or all digits is positional (there are no
\* positional arguments), anything else is looked up in kwargs.
FieldValue(name, kwargs) ==
    IF \A i \in 1..Len(name) : name[i] \in Digits
    THEN [exc |-> "IndexError", out |-> <<>>]
    ELSE IF name \in DOMAIN kwargs
         THEN [exc |-> "none", out |-> kwargs[name]]
         ELSE [exc |-> "KeyError", out |-> <<>>]

RECURSIVE FormatFrom(_, _, _, _)
FormatFrom(s, i, kwargs, out) ==
    IF i > Len(s) THEN [exc |-> "none", out |-> out]
    ELSE IF s[i] \notin Braces
         THEN FormatFrom(s, i + 1, kwargs, Append(out, s[i]))
    ELSE IF i = Len(s) THEN [exc |-> "ValueError", out |-> <<>>]
    ELSE IF s[i + 1] = s[i]
         THEN FormatFrom(s, i + 2, kwargs, Append(out, s[i]))
    ELSE IF s[i] = "}" THEN [exc |-> "ValueError", out |-> <<>>]
    ELSE LET j == NextBrace(s, i + 1)
         IN  IF j > Len(s) \/ s[j] = "{"
             THEN [exc |-> "ValueError", out |-> <<>>]
             ELSE LET f == FieldValue(SubSeq(s, i + 1, j - 1), kwargs)
                  IN  IF f.exc = "none"
                      THEN FormatFrom(s, j + 1, kwargs, out \o f.out)
                      ELSE f

Format(s, kwargs) == FormatFrom(s, 1, kwargs, <<>>)

----------------------------------------------------------------------------
(* The host framework: sessions and request contexts.                      *)

SessionIds == {"s1", "s2"}
ReqIds == {"r1", "r2"}

EmptyDict == [k \in {} |-> <<>>]
DictSet(d, k, v) == [x \in DOMAIN d \cup {k} |-> IF x = k THEN v ELSE d[x]]

\* A call runs outside any request (session and request proxies unbound),
\* or in a request whose session is a stored one ("s1", "s2") or the null
\* session of an application without a secret key (reads as empty, refuses
\* writes).
OutsideCtx == [request |-> FALSE, sid |-> "none", accept_languages |-> <<>>]
RequestCtx(sid, prefs) ==
    [request |-> TRUE, sid |-> sid, accept_languages |-> prefs]

SessionOf(ctx, sess) ==
    IF ctx.sid \in SessionIds THEN sess[ctx.sid] ELSE EmptyDict

----------------------------------------------------------------------------
(* I18n.get_language                                                       *)

\* Variant: the region suffix is not stripped.
lang_code_whole_tag(lang) == Lower(lang)

\* 'zh-CN' -> 'zh'
lang_code(lang) == Lower(Split(lang, "-")[1])

RECURSIVE detect_from_browser(_, _)
detect_from_browser(accept_languages, i) ==
    IF i > Len(accept_languages) THEN en
    ELSE IF InList(lang_code(accept_languages[i]), supported_languages)
         THEN lang_code(accept_languages[i])
         ELSE detect_from_browser(accept_languages, i + 1)

\* Variant: the override is honoured only when it is a supported locale.
get_language_validating(ctx, sess) ==
    IF /\ ctx.request /\ "language" \in DOMAIN SessionOf(ctx, sess)
       /\ InList(SessionOf(ctx, sess)["language"], supported_languages)
    THEN SessionOf(ctx, sess)["language"]
    ELSE IF ctx.request
         THEN detect_from_browser(ctx.accept_languages, 1)
         ELSE en

get_language(ctx, sess) ==
    IF ctx.request /\ "language" \in DOMAIN SessionOf(ctx, sess)
    THEN SessionOf(ctx, sess)["language"]
    ELSE IF ctx.request
         THEN detect_from_browser(ctx.accept_languages, 1)
         ELSE en

----------------------------------------------------------------------------
(* I18n.set_language                                                       *)

\* Variant: the hint is set without the membership test.
set_language_hint_unchecked(language, hint) == language

set_language_hint(language, hint) ==
    IF InList(language, supported_languages) THEN language ELSE hint

\* Variant: the slot is written without the membership test.
set_language_session_unchecked(language, ctx, sess) ==
    IF ctx.sid \in SessionIds
    THEN [sess EXCEPT ![ctx.sid] = DictSet(@, "language", language)]
    ELSE sess

\* Variant: the slot is one value shared by all sessions.
set_language_session_shared(language, ctx, sess) ==
    IF InList(language, supported_languages) /\ ctx.sid \in SessionIds
    THEN [s \in SessionIds |-> DictSet(sess[s], "language", language)]
    ELSE sess

\* The write raises RuntimeError outside a request and on the null session;
\* set_language swallows it.
set_language_session(language, ctx, sess) ==
    IF InList(language, supported_languages) /\ ctx.sid \in SessionIds
    THEN [sess EXCEPT ![ctx.sid] = DictSet(@, "language", language)]
    ELSE sess

----------------------------------------------------------------------------
(* I18n.translate                                                          *)

\* Variant: no fallback to the default locale.
try_translate_no_fallback(key, kwargs, ctx, sess, table) ==
    LET current_lang == get_language(ctx, sess)
        t1 == IF current_lang \in DOMAIN table
              THEN get_nested_value(table[current_lang], key)
              ELSE NoneValue
        text == IF t1 = NoneValue THEN StrNode(key) ELSE t1
        f == Format(text.s, kwargs)
    IN  IF DOMAIN kwargs # {} /\ text.t = "str"
        THEN IF f.exc = "none" THEN [exc |-> "none", val |-> f.out]
             ELSE IF f.exc \in {"KeyError", "ValueError"}
                  THEN [exc |-> "none", val |-> text.s]
                  ELSE [exc |-> f.exc, val |-> <<>>]
        ELSE [exc |-> "none", val |-> PyStr(text)]

\* The body of the outer try: the result, or the exception that leaves it.
try_translate(key, kwargs, ctx, sess, table) ==
    LET current_lang == get_language(ctx, sess)
        t1 == IF current_lang \in DOMAIN table
              THEN get_nested_value(table[current_lang], key)
              ELSE NoneValue
        t2 == IF t1 = NoneValue /\ en \in DOMAIN table
              THEN get_nested_value(table[en], key)
              ELSE t1
        text == IF t2 = NoneValue THEN StrNode(key) ELSE t2
        f == Format(text.s, kwargs)
    IN  IF DOMAIN kwargs # {} /\ text.t = "str"
        THEN IF f.exc = "none" THEN [exc |-> "none", val |-> f.out]
             ELSE IF f.exc \in {"KeyError", "ValueError"}
                  THEN [exc |-> "none", val |-> text.s]
                  ELSE [exc |-> f.exc, val |-> <<>>]
        ELSE [exc |-> "none", val |-> PyStr(text)]

\* Variant: no outer handler.
translate_unguarded(key, kwargs, ctx, sess, table) ==
    try_translate(key, kwargs, ctx, sess, table)

translate(key, kwargs, ctx, sess, table) ==
    LET r == try_translate(key, kwargs, ctx, sess, table)
    IN  IF r.exc = "none" THEN r ELSE [exc |-> "none", val |-> key]

----------------------------------------------------------------------------
(* I18n.load_translations                                                  *)

\* open() and json.load() on one translation file.
read_json(file) ==
    CASE file.kind = "json" -> [exc |-> "none", doc |-> file.doc]
      [] file.kind = "missing" -> [exc |-> "FileNotFoundError", doc |-> NoneValue]
      [] file.kind = "invalid_json" -> [exc |-> "JSONDecodeError", doc |-> NoneValue]
      [] file.kind = "undecodable" -> [exc |-> "UnicodeDecodeError", doc |-> NoneValue]

\* One iteration of the loop: the entry stored, or the exception that
\* leaves load_translations.
load_one(file) ==
    LET r == read_json(file)
    IN  IF r.exc = "none" THEN r
        ELSE IF r.exc \in {"FileNotFoundError", "JSONDecodeError"}
             THEN [exc |-> "none", doc |-> DictNode(<<>>)]
             ELSE r

----------------------------------------------------------------------------
(* Inputs.                                                                 *)

A == <<"a">>
KeyChars == {"a", "."}
TextChars == {"{", "}", "n"}
Keys == SeqsUpTo(KeyChars, MaxKeyLen)

Trees(texts) ==
    {DictNode(<<>>), DictNode(<< <<A, DictNode(<<>>)>> >>)}
    \cup {DictNode(<< <<A, StrNode(t)>> >>) : t \in texts}
    \cup {DictNode(<< <<A, DictNode(<< <<A, StrNode(t)>> >>)>> >>) : t \in texts}

Docs(lang) ==
    IF lang = en THEN Trees(SeqsUpTo(TextChars, MaxTextLen))
    ELSE Trees(SeqsUpTo(TextChars, MaxAltTextLen))

Files(lang) ==
    {[kind |-> k, doc |-> NoneValue] : k \in {"missing", "invalid_json", "undecodable"}}
    \cup {[kind |-> "json", doc |-> d] : d \in Docs(lang)}

KwargsSet == {<<>>, (<<"n">> :> <<"X">>), (<<"m">> :> <<"X">>)}

Codes == {en, zh, fr, <<"Z", "H">>}

Call(op, ctx, arg, kwargs, exc, val) ==
    [op |-> op, ctx |-> ctx, arg |-> arg, kwargs |-> kwargs, exc |-> exc, val |-> val]

NoCall == Call("none", OutsideCtx, <<>>, <<>>, "none", <<>>)

----------------------------------------------------------------------------
(* Operations.                                                             *)

\* One iteration of the loop of load_translations, run by I18n() when the
\* module is imported. An exception that leaves it aborts the import.
Load ==
    /\ init_pc = "loading"
    /\ \E file \in Files(supported_languages[load_next]) :
          LET lang == supported_languages[load_next]
              r == load_one(file)
          IN  /\ IF r.exc = "none"
                 THEN /\ translations' = DictSet(translations, lang, r.doc)
                      /\ load_next' = load_next + 1
                      /\ init_pc' = IF load_next = Len(supported_languages)
                                    THEN "ready" ELSE "loading"
                 ELSE /\ init_pc' = "aborted"
                      /\ UNCHANGED <<translations, load_next>>
              /\ ret' = Call("load_translations", OutsideCtx, lang, <<>>, r.exc, <<>>)
    /\ UNCHANGED <<current_language, session, reqs, lastSet>>

Translate(ctx, key, kwargs) ==
    /\ init_pc = "ready"
    /\ LET r == translate(key, kwargs, ctx, session, translations)
       IN  ret' = Call("translate", ctx, key, kwargs, r.exc, r.val)
    /\ UNCHANGED <<translations, current_language, init_pc, load_next,
                   session, reqs, lastSet>>

GetLanguage(ctx) ==
    /\ init_pc = "ready"
    /\ ret' = Call("get_language", ctx, <<>>, <<>>, "none",
                   get_language(ctx, session))
    /\ UNCHANGED <<translations, current_language, init_pc, load_next,
                   session, reqs, lastSet>>

SetLanguage(ctx, language) ==
    /\ init_pc = "ready"
    /\ current_language' = set_language_hint(language, current_language)
    /\ session' = set_language_session(language, ctx, session)
    /\ lastSet' = IF InList(language, supported_languages) /\ ctx.sid \in SessionIds
                  THEN [lastSet EXCEPT ![ctx.sid] = language]
                  ELSE lastSet
    /\ ret' = Call("set_language", ctx, language, <<>>, "none", <<>>)
    /\ UNCHANGED <<translations, init_pc, load_next, reqs>>

\* A request arrives and the adapter's before_request hook runs.
BeginRequest(r, ctx) ==
    /\ init_pc = "ready"
    /\ reqs[r] = OutsideCtx
    /\ reqs' = [reqs EXCEPT ![r] = ctx]
    /\ current_language' = get_language(ctx, session)
    /\ ret' = Call("before_request", ctx, <<>>, <<>>, "none", <<>>)
    /\ UNCHANGED <<translations, init_pc, load_next, session, lastSet>>

EndRequest(r) ==
    /\ reqs[r] # OutsideCtx
    /\ reqs' = [reqs EXCEPT ![r] = OutsideCtx]
    /\ ret' = Call("end_request", OutsideCtx, <<>>, <<>>, "none", <<>>)
    /\ UNCHANGED <<translations, current_language, init_pc, load_next,
                   session, lastSet>>

----------------------------------------------------------------------------
(* SpecI18n: construction of the service from any translation files, then  *)
(* lookups of any key with any parameters: outside a request (no session), *)
(* in a request without override that declares a preference, and in a      *)
(* request whose session holds an override that is not a supported locale. *)

HostSessions == ("s1" :> EmptyDict) @@ ("s2" :> ("language" :> fr))

TrContexts == {OutsideCtx, RequestCtx("s1", <<<<"z", "h", "-", "C", "N">>>>),
               RequestCtx("s2", <<>>)}

InitI18n ==
    /\ translations = EmptyDict
    /\ current_language = en
    /\ init_pc = "loading"
    /\ load_next = 1
    /\ session = HostSessions
    /\ reqs = [r \in ReqIds |-> OutsideCtx]
    /\ lastSet = [s \in SessionIds |-> <<>>]
    /\ ret = NoCall

\* translate changes nothing of the service, so a lookup that follows
\* another reaches no state that a first lookup does not reach.
NextI18n ==
    \/ Load
    \/ /\ ret.op # "translate"
       /\ \E ctx \in TrContexts, key \in Keys, kwargs \in KwargsSet :
             Translate(ctx, key, kwargs)

SpecI18n == InitI18n /\ [][NextI18n]_vars

----------------------------------------------------------------------------
(* SpecLocale: get_language on any session store the host may hold (the    *)
(* store is the host's: other code of the application may have written any *)
(* value to the slot) and any declared preferences.                        *)

SampleTable == (en :> DictNode(<< <<A, StrNode(<<"n">>)>> >>)) @@ (zh :> DictNode(<<>>))

PrefTags == {<<"z", "h", "-", "C", "N">>, <<"f", "r">>, <<"Z", "H">>,
             <<"e", "n", "-", "U", "S">>}

SessionDicts == {EmptyDict} \cup {("language" :> c) : c \in {en, zh, fr}}

LocaleContexts ==
    {OutsideCtx} \cup
    {RequestCtx(sid, prefs) : sid \in SessionIds \cup {"null"},
                              prefs \in SeqsUpTo(PrefTags, MaxPrefs)}

InitLocale ==
    /\ translations = SampleTable
    /\ current_language = en
    /\ init_pc = "ready"
    /\ load_next = Len(supported_languages) + 1
    /\ session \in [SessionIds -> SessionDicts]
    /\ reqs = [r \in ReqIds |-> OutsideCtx]
    /\ lastSet = [s \in SessionIds |-> <<>>]
    /\ ret = NoCall

NextLocale == \E ctx \in LocaleContexts : GetLanguage(ctx)

SpecLocale == InitLocale /\ [][NextLocale]_vars

----------------------------------------------------------------------------
(* Spec: the service after construction, serving interleaved requests of   *)
(* several sessions; the session slots are written by set_language only.   *)

\* What a request declares: nothing, or a tag that resolves to 'zh'.
RequestPrefs == {<<>>, <<<<"z", "h", "-", "C", "N">>>>}

RequestContexts ==
    {RequestCtx(sid, prefs) : sid \in SessionIds \cup {"null"},
                              prefs \in RequestPrefs}

\* The contexts a call can run in now: a request in flight, or none.
LiveContexts == {OutsideCtx} \cup {reqs[r] : r \in ReqIds}

Init ==
    /\ translations = SampleTable
    /\ current_language = en
    /\ init_pc = "ready"
    /\ load_next = Len(supported_languages) + 1
    /\ session = [s \in SessionIds |-> EmptyDict]
    /\ reqs = [r \in ReqIds |-> OutsideCtx]
    /\ lastSet = [s \in SessionIds |-> <<>>]
    /\ ret = NoCall

Next ==
    \/ \E r \in ReqIds, ctx \in RequestContexts : BeginRequest(r, ctx)
    \/ \E r \in ReqIds : EndRequest(r)
    \/ \E ctx \in LiveContexts, language \in Codes : SetLanguage(ctx, language)
    \/ \E ctx \in LiveContexts : GetLanguage(ctx)
    \/ \E ctx \in LiveContexts : Translate(ctx, A, <<>>)

Spec == Init /\ [][Next]_vars

----------------------------------------------------------------------------
(* Vocabulary of the claims, stated without the operators above.           *)

IsString(v) ==
    /\ DOMAIN v = 1..Len(v)
    /\ \A i \in 1..Len(v) : v[i] \in STRING

Supported == {supported_languages[i] : i \in 1..Len(supported_languages)}

\* The segments of a dotted key: the text before, between and after the dots.
DotsUpTo(key, p) == Cardinality({q \in 1..p : key[q] = "."})
Bound(key, n) ==
    IF n = 0 THEN 0
    ELSE IF n > DotsUpTo(key, Len(key)) THEN Len(key) + 1
    ELSE CHOOSE p \in 1..Len(key) : key[p] = "." /\ DotsUpTo(key, p) = n
Segments(key) ==
    [k \in 1..(DotsUpTo(key, Len(key)) + 1) |->
        SubSeq(key, Bound(key, k - 1) + 1, Bound(key, k) - 1)]

\* The value a tree holds at a path of segments, NoneValue when the path
\* leaves the tree.
RECURSIVE ValueAt(_, _)
ValueAt(node, segs) ==
    IF segs = <<>> THEN node
    ELSE IF node.t # "dict" THEN NoneValue
    ELSE LET hits == {i \in 1..Len(node.d) : node.d[i][1] = Head(segs)}
         IN  IF hits = {} THEN NoneValue
             ELSE ValueAt(node.d[CHOOSE i \in hits : TRUE][2], Tail(segs))

TreeValue(table, locale, key) ==
    IF locale \in DOMAIN table THEN ValueAt(table[locale], Segments(key))
    ELSE NoneValue

\* The fallback chain: active locale, default locale, the key itself.
Resolved(table, active, key) ==
    IF TreeValue(table, active, key) # NoneValue THEN TreeValue(table, active, key)
    ELSE IF TreeValue(table, en, key) # NoneValue THEN TreeValue(table, en, key)
    ELSE StrNode(key)

\* The override of a call's session, if it has one.
HasOverride(ctx, sess) ==
    ctx.sid \in SessionIds /\ "language" \in DOMAIN sess[ctx.sid]

ActiveLocale(ctx, sess) == get_language(ctx, sess)

Translated == ret.op = "translate"
ResolvedNow == Resolved(translations, ActiveLocale(ret.ctx, session), ret.arg)

----------------------------------------------------------------------------
(* Claims on SpecI18n.                                                     *)

\* C1: translate is total: whatever the key, the parameters, the table and
\* the session and request of the call, it returns a string and no
\* exception leaves it.
C1_TranslateTotal ==
    Translated => ret.exc = "none" /\ IsString(ret.val)

\* C1 witness: a lookup whose substitution raised an exception that the
\* inner handler does not name, answered with the key.
C1_Witness ==
    /\ Translated
    /\ try_translate(ret.arg, ret.kwargs, ret.ctx, session, translations).exc
          = "IndexError"
    /\ ret.val = ret.arg

\* C2: without parameters translate returns the value at the key in the
\* active locale's tree, else the value at the key in the default locale's
\* tree, else the key itself (a mapping is returned as its str()).
C2_FallbackChain ==
    (Translated /\ DOMAIN ret.kwargs = {}) =>
        /\ ResolvedNow.t = "str" => ret.val = ResolvedNow.s
        /\ ResolvedNow.t = "dict" => ret.val = PyStr(ResolvedNow)

\* C2 witness: the key is absent from the active locale's tree and the
\* default locale's text is returned.
C2_Witness ==
    /\ Translated /\ DOMAIN ret.kwargs = {}
    /\ ActiveLocale(ret.ctx, session) = zh
    /\ TreeValue(translations, zh, ret.arg) = NoneValue
    /\ TreeValue(translations, en, ret.arg).t = "str"
    /\ Len(Segments(ret.arg)) = 2
    /\ ret.val = TreeValue(translations, en, ret.arg).s
    /\ ret.val # <<>>

\* C3: with parameters and a resolved text that is a string, a substitution
\* that fails is swallowed: translate returns the resolved text as it is.
C3_SubstitutionFailureKeepsText ==
    (/\ Translated /\ DOMAIN ret.kwargs # {}
     /\ ResolvedNow.t = "str"
     /\ Format(ResolvedNow.s, ret.kwargs).exc # "none")
    => ret.exc = "none" /\ ret.val = ResolvedNow.s

\* C7: initialization is never aborted and leaves an entry for every
\* supported locale, whatever each locale's file holds.
C7_EveryLocaleLoaded ==
    /\ init_pc # "aborted"
    /\ init_pc = "ready" => \A lang \in Supported : lang \in DOMAIN translations

----------------------------------------------------------------------------
(* Claims on SpecLocale.                                                   *)

\* The primary subtag of a language tag: what precedes its first "-",
\* in lower case.
FirstDash(tag) ==
    IF \E p \in 1..Len(tag) : tag[p] = "-"
    THEN CHOOSE p \in 1..Len(tag) :
            tag[p] = "-" /\ \A q \in 1..(p - 1) : tag[q] # "-"
    ELSE Len(tag) + 1
PrimarySubtag(tag) == Lower(SubSeq(tag, 1, FirstDash(tag) - 1))

Matching(prefs) == {i \in 1..Len(prefs) : PrimarySubtag(prefs[i]) \in Supported}
FirstMatch(prefs) ==
    IF Matching(prefs) = {} THEN en
    ELSE PrimarySubtag(prefs[CHOOSE i \in Matching(prefs) :
                                 \A j \in Matching(prefs) : i <= j])

\* C4: when the session is available and its slot is set, get_language
\* returns the slot's value, whatever the declared preferences and whether
\* or not the value is a supported locale.
C4_OverrideWins ==
    (ret.op = "get_language" /\ ret.ctx.request /\ HasOverride(ret.ctx, session))
    => ret.val = session[ret.ctx.sid]["language"]

\* C4 witness: an unsupported override returned although a supported
\* locale is declared as a preference.
C4_Witness ==
    /\ ret.op = "get_language"
    /\ HasOverride(ret.ctx, session)
    /\ session[ret.ctx.sid]["language"] = fr
    /\ Matching(ret.ctx.accept_languages) # {}
    /\ ret.val = fr

\* C5: without a session override get_language returns the lower-cased
\* primary subtag of the first declared preference whose primary subtag is
\* supported, and 'en' when there is none.
C5_FirstSupportedPreference ==
    (ret.op = "get_language" /\ ~HasOverride(ret.ctx, session))
    => ret.val = FirstMatch(ret.ctx.accept_languages)

\* C5 witness: preferences ['zh-CN', 'fr'] without override give 'zh'.
C5_Witness ==
    /\ ret.op = "get_language"
    /\ ~HasOverride(ret.ctx, session)
    /\ ret.ctx.accept_languages = <<<<"z", "h", "-", "C", "N">>, fr>>
    /\ ret.val = zh

----------------------------------------------------------------------------
(* Claims on Spec.                                                         *)

SameResolution ==
    \A ctx \in LiveContexts \cup RequestContexts :
        get_language(ctx, session') = get_language(ctx, session)

\* C6: set_language with an unsupported code is a no-op: the session slots,
\* the hint and the table are unchanged, nothing is raised, and
\* get_language returns after the call what it returned before it.
C6_UnsupportedIsNoOp ==
    [][(ret'.op = "set_language" /\ ret'.arg \notin Supported)
       => /\ UNCHANGED <<session, current_language, translations>>
          /\ ret'.exc = "none"
          /\ SameResolution]_vars

\* C6 witness: an unsupported code was offered in a request whose session
\* holds an override, the hint being that override.
C6_Witness ==
    /\ ret.op = "set_language" /\ ret.arg = fr
    /\ HasOverride(ret.ctx, session)
    /\ session[ret.ctx.sid]["language"] = zh
    /\ current_language = zh

\* C8: once set_language(c), c supported, has run in a request of a session,
\* get_language returns c in every request of that session, whatever its
\* preferences, until set_language runs again in that session with a
\* supported code; set_language in another session or outside any request
\* changes nothing of what this session resolves to.
C8_ReturnsLastSet ==
    \A s \in SessionIds :
        lastSet[s] # <<>> =>
            /\ \A ctx \in RequestContexts :
                  ctx.sid = s => get_language(ctx, session) = lastSet[s]
            /\ (ret.op = "get_language" /\ ret.ctx.sid = s) => ret.val = lastSet[s]

C8_OthersDoNotInterfere ==
    \A s \in SessionIds :
        (ret'.op = "set_language" /\ ret'.ctx.sid # s) =>
            \A ctx \in RequestContexts :
                ctx.sid = s => get_language(ctx, session') = get_language(ctx, session)

C8_OverridePersists == []C8_ReturnsLastSet /\ [][C8_OthersDoNotInterfere]_vars

\* C8 witness: both sessions hold different overrides and a request of the
\* first, declaring another preference, is answered with its own.
C8_Witness ==
    /\ lastSet["s1"] = en /\ lastSet["s2"] = zh
    /\ ret.op = "get_language" /\ ret.ctx.sid = "s1"
    /\ ret.ctx.accept_languages = <<<<"z", "h", "-", "C", "N">>>>
    /\ ret.val = en

\* C9: from a request's pre-request hook until the request ends, the hint
\* is that request's active locale: it is so when the hook has run, and no
\* call made meanwhile in a request of another session (its hook, its
\* set_language) ends it.
C9_FreshAfterHook ==
    ret.op = "before_request" => current_language = ActiveLocale(ret.ctx, session)

C9_StaysFresh ==
    \A r \in ReqIds :
        (/\ reqs[r] # OutsideCtx /\ reqs'[r] = reqs[r]
         /\ current_language = ActiveLocale(reqs[r], session)
         /\ ret'.ctx.request /\ ret'.ctx.sid # reqs[r].sid)
        => current_language' = ActiveLocale(reqs[r], session')

C9_HintFresh == []C9_FreshAfterHook /\ [][C9_StaysFresh]_vars

\* C10: with slots written through set_language only, every slot is unset
\* or supported, and the hint and every result of get_language are
\* supported locales.
C10_OnlySupportedLocales ==
    /\ \A s \in SessionIds :
          "language" \in DOMAIN session[s] => session[s]["language"] \in Supported
    /\ current_language \in Supported
    /\ ret.op = "get_language" => ret.val \in Supported
    /\ \A ctx \in LiveContexts : get_language(ctx, session) \in Supported

\* C10 witness: an unsupported code was offered in a session whose slot is
\* still unset, while the other session holds an override.
C10_Witness ==
    /\ ret.op = "set_language" /\ ret.arg = <<"Z", "H">>
    /\ ret.ctx.sid = "s1"
    /\ session["s1"] = EmptyDict
    /\ "language" \in DOMAIN session["s2"]

====
